---- MODULE Spec2Model ----
(***************************************************************************)
(* MeSH hierarchy extraction: src/scraping_labels/scraper.py (the first    *)
(* version, "v1") and src/scraping_labels/scraper_v2.py (the second, the   *)
(* unprefixed names below).  One stream of catalog input drives both       *)
(* extractors, so that their tables can be compared state by state.        *)
(*                                                                         *)
(* Representation.                                                         *)
(*  - A Python string holding a tree number is a sequence of tokens, each  *)
(*    either the dot "." or a dot-free piece of text: "C01.001" is         *)
(*    <<"C01", ".", "001">>.  Split and Join work on the tokens as         *)
(*    str.split('.') and '.'.join work on the characters.                  *)
(*  - Element text that is Python's None is NoneCode (tree numbers) or     *)
(*    NoneName (names); neither is a value any real text takes.            *)
(*  - Identifiers are opaque; they are numbered 1, 2, ... and 0 is an      *)
(*    identifier no catalog declares.  The k-th record of a catalog        *)
(*    carries identifier k (identifiers are unique within one catalog).    *)
(*  - A dict whose key order an operation reads (parent_child_relations,   *)
(*    descriptor_details) is a sequence of [key, val] entries in insertion *)
(*    order; the other dicts are functions on their key sets.              *)
(*  - The free-text definition of a record is left out: no table or        *)
(*    result modelled here depends on it.                                  *)
(***************************************************************************)
EXTENDS Naturals, Sequences, FiniteSets, TLC

(* ----------------------------- bounds --------------------------------- *)
\* calls of parse_mesh_xml on one extractor
MaxParses == 2
\* descriptor records read over the extractor's life
MaxRecords == 2
\* TreeNumber elements read over the extractor's life
MaxCodes == 3
\* records of a catalog of PairSpec
MaxFan == 4
\* malformed items (unparseable content, a record without identifier or
\* name, an element without text) met over the extractor's life
MaxFaults == 1

(* ------------------------- input universe ----------------------------- *)
Dot == "."
NoneName == "<None>"
NoneCode == <<"<None>">>
\* Names are opaque to the extractor, so a catalog is taken up to renaming:
\* the names of its records first appear in the order of NameSeq.
NameSeq == <<"Root", "A", "B", "C", "D">>
Names == {NameSeq[i] : i \in DOMAIN NameSeq}
\* the text of DescriptorName/String: a name, or None for an empty element
NameTexts == Names \cup {NoneName}
C01 == <<"C01">>
C01_001 == <<"C01", Dot, "001">>
C01_002 == <<"C01", Dot, "002">>
C01_001_001 == <<"C01", Dot, "001", Dot, "001">>
Codes == {C01, C01_001, C01_001_001}
\* the text of a TreeNumber element: a code, or None for an empty element
CodeTexts == Codes \cup {NoneCode}
C01_003 == <<"C01", Dot, "003">>
\* the codes of the catalogs of PairSpec
FanCodes == Codes \cup {C01_002, C01_003}
UnknownId == 0

VARIABLES
    pc,                      \* where parse_mesh_xml of v2 stands: idle, records, codes
    v1_pc,                   \* the same for v1; v1's call can end (raise) while v2's goes on
    xml_content,             \* what the last call of parse_mesh_xml was given
    descriptor_record,       \* the current record (loop variable), by its shape
    descriptor_ui,           \* the current record's identifier (loop local)
    descriptor_name,         \* the current record's name (loop local)
    descriptor_to_tree,
    tree_to_descriptor,
    parent_child_relations,
    descriptor_details,
    ui_to_tree,
    tree_to_ui,
    v1_descriptor_to_tree,
    v1_tree_to_descriptor,
    v1_parent_child_relations,
    raised,                  \* the exception that ended v2's last call, "" if none
    v1_raised,               \* the same for v1
    nparses,                 \* calls of parse_mesh_xml so far
    nrecords,                \* records read so far (all calls)
    ncodes,                  \* TreeNumber elements read so far (all calls)
    recno,                   \* records read in the current call
    nfaults,                 \* malformed items met so far
    nnames,                  \* names of NameSeq used so far
    tree_number,             \* the current TreeNumber text (loop local)
    edge_steps,              \* history: the (parent_tree, child_tree) pairs whose edge the
                             \* last extraction of v2 added (line 122 ran for them)
    v1_edge_steps,           \* the same for v1
    declared,                \* history: the [ui, name, code] registrations of the current call
    ret,                     \* the last query on the v2 extractor and what it returned
    v1_ret,                  \* what the same query returned on the v1 extractor
    similar_pairs,           \* the list get_label_hierarchy_for_micol of v2 built (its local)
    rerun                    \* what a second run of v1's pair generation, in another
                             \* interpreter process over equal tables, returned

vars == <<pc, v1_pc, xml_content, descriptor_record, edge_steps, v1_edge_steps, descriptor_ui, descriptor_name, descriptor_to_tree,
          tree_to_descriptor, parent_child_relations, descriptor_details,
          ui_to_tree, tree_to_ui, v1_descriptor_to_tree, v1_tree_to_descriptor,
          v1_parent_child_relations, raised, v1_raised, nparses, nrecords,
          ncodes, recno, nfaults, nnames, tree_number, declared,
          ret, v1_ret, similar_pairs, rerun>>

(* --------------------------- Python values ---------------------------- *)
\* str.split('.'): the pieces between the dots, empty pieces kept
RECURSIVE Split(_)
Split(s) ==
    IF s = <<>> THEN << <<>> >>
    ELSE LET rest == Split(Tail(s))
         IN  IF Head(s) = Dot
             THEN << <<>> >> \o rest
             ELSE << <<Head(s)>> \o Head(rest) >> \o Tail(rest)

\* '.'.join(parts)
RECURSIVE Join(_)
Join(parts) ==
    IF parts = <<>> THEN <<>>
    ELSE IF Len(parts) = 1 THEN parts[1]
    ELSE parts[1] \o <<Dot>> \o Join(Tail(parts))

\* parts[:n]
Take(parts, n) == SubSeq(parts, 1, n)

\* {} : a dict read only by key
EmptyDict == [k \in {} |-> 0]
\* A faulty assignment, to show what last-write-wins can tell apart: a key
\* already present keeps its value.
DictSetKeep(d, k, v) ==
    [x \in DOMAIN d \cup {k} |-> IF x \in DOMAIN d THEN d[x] ELSE v]

\* d[k] = v on a dict read only by key
DictSet(d, k, v) == [x \in (DOMAIN d) \cup {k} |-> IF x = k THEN v ELSE d[x]]
\* d[k].append(v) on a defaultdict(list)
ListAppend(d, k, v) ==
    DictSet(d, k, (IF k \in DOMAIN d THEN d[k] ELSE <<>>) \o <<v>>)

\* an insertion-ordered dict: its keys, membership, lookup and assignment
OKeys(d) == {d[i].key : i \in DOMAIN d}
OHas(d, k) == k \in OKeys(d)
OGet(d, k) == d[CHOOSE i \in DOMAIN d : d[i].key = k].val
OSet(d, k, v) ==
    IF OHas(d, k)
    THEN [i \in DOMAIN d |-> IF d[i].key = k THEN [key |-> k, val |-> v] ELSE d[i]]
    ELSE Append(d, [key |-> k, val |-> v])

\* d[k].add(v) on a defaultdict(set) kept in insertion order
SetAdd(d, k, v) == OSet(d, k, (IF OHas(d, k) THEN OGet(d, k) ELSE {}) \cup {v})

\* the edges (parent name, child name) a parent_child_relations table holds
Edges(pcr) == UNION {{<<pcr[i].key, c>> : c \in pcr[i].val} : i \in DOMAIN pcr}

(* ------------------- _extract_hierarchy_relations --------------------- *)
\* The extraction is followed as a pair: the table, and the (parent_tree,
\* child_tree) pairs for which the edge was added.
\* the body of the loop for one i: the edge is added when both prefixes are keys
ExtractStep(acc, ttd, parts, i) ==
    LET parent_tree == Join(Take(parts, i))
        child_tree == Join(Take(parts, i + 1))
    IN  IF parent_tree \in DOMAIN ttd /\ child_tree \in DOMAIN ttd
        THEN [pcr |-> SetAdd(acc.pcr, ttd[parent_tree], ttd[child_tree]),
              steps |-> acc.steps \cup {<<parent_tree, child_tree>>}]
        ELSE acc

\* for i in range(from, len(parts)), in order
RECURSIVE ExtractLoop(_, _, _, _)
ExtractLoop(acc, ttd, parts, from) ==
    IF from >= Len(parts) THEN acc
    ELSE ExtractLoop(ExtractStep(acc, ttd, parts, from), ttd, parts, from + 1)

\* A faulty extraction, to show what the properties below can tell apart:
\* the child of every edge is the code just read, not the prefix one longer.
ExtractStepToLeaf(acc, ttd, parts, i) ==
    LET parent_tree == Join(Take(parts, i))
        child_tree == Join(parts)
    IN  IF parent_tree \in DOMAIN ttd /\ child_tree \in DOMAIN ttd
        THEN [pcr |-> SetAdd(acc.pcr, ttd[parent_tree], ttd[child_tree]),
              steps |-> acc.steps \cup {<<parent_tree, child_tree>>}]
        ELSE acc
RECURSIVE ExtractLoopToLeaf(_, _, _, _)
ExtractLoopToLeaf(acc, ttd, parts, from) ==
    IF from >= Len(parts) THEN acc
    ELSE ExtractLoopToLeaf(ExtractStepToLeaf(acc, ttd, parts, from), ttd, parts, from + 1)
extract_to_leaf(pcr, ttd, tree_num, name) ==
    ExtractLoopToLeaf([pcr |-> pcr, steps |-> {}], ttd, Split(tree_num), 1)

\* Another: only the last level of the code just read is examined.
extract_last_level(pcr, ttd, tree_num, name) ==
    LET parts == Split(tree_num)
    IN  IF Len(parts) < 2 THEN [pcr |-> pcr, steps |-> {}]
        ELSE ExtractStep([pcr |-> pcr, steps |-> {}], ttd, parts, Len(parts) - 1)

\* Another: the two prefixes are taken the wrong way round, so the shorter
\* prefix is the child of the longer.
ExtractStepReversed(acc, ttd, parts, i) ==
    LET parent_tree == Join(Take(parts, i + 1))
        child_tree == Join(Take(parts, i))
    IN  IF parent_tree \in DOMAIN ttd /\ child_tree \in DOMAIN ttd
        THEN [pcr |-> SetAdd(acc.pcr, ttd[parent_tree], ttd[child_tree]),
              steps |-> acc.steps \cup {<<parent_tree, child_tree>>}]
        ELSE acc
RECURSIVE ExtractLoopReversed(_, _, _, _)
ExtractLoopReversed(acc, ttd, parts, from) ==
    IF from >= Len(parts) THEN acc
    ELSE ExtractLoopReversed(ExtractStepReversed(acc, ttd, parts, from), ttd, parts, from + 1)
extract_reversed(pcr, ttd, tree_num, name) ==
    ExtractLoopReversed([pcr |-> pcr, steps |-> {}], ttd, Split(tree_num), 1)

\* v2: _extract_hierarchy_relations(tree_number, descriptor_name)
extract_hierarchy_relations(pcr, ttd, tree_num, name) ==
    ExtractLoop([pcr |-> pcr, steps |-> {}], ttd, Split(tree_num), 1)

\* v1: the same method of scraper.py
v1_extract_hierarchy_relations(pcr, ttd, tree_num, name) ==
    ExtractLoop([pcr |-> pcr, steps |-> {}], ttd, Split(tree_num), 1)

(* --------------------------- parse_mesh_xml --------------------------- *)
\* what a call is given: text that parses, text that does not, bytes that do not decode
Inputs == {"xml", "not_xml", "not_utf8"}
\* the exception the first lines of parse_mesh_xml raise on an input, "" if none
OpenError(input) ==
    CASE input = "not_utf8" -> "UnicodeDecodeError"
      [] input = "not_xml" -> "ParseError"
      [] OTHER -> ""

\* A faulty opening, to show what all-or-nothing can tell apart: the table
\* is emptied before the content is parsed.
details_reset_first(details, input) == <<>>


\* v2: descriptor_details after the lines up to the loop over the records
details_after_open(details, input) ==
    IF OpenError(input) = "" THEN <<>> ELSE details

\* a descriptor record as the loop sees it: which elements it has, and the name's text
RecordInputs ==
    [has_ui : {TRUE}, has_name : {TRUE}, name : NameTexts, has_list : BOOLEAN]
    \cup [has_ui : {FALSE}, has_name : {TRUE}, name : {NameSeq[1]}, has_list : {TRUE}]
    \cup [has_ui : {TRUE}, has_name : {FALSE}, name : {NoneName}, has_list : {TRUE}]

\* the position of a name in NameSeq
NameIndex(name) == CHOOSE i \in DOMAIN NameSeq : NameSeq[i] = name
\* the record's name is one already used or the next unused one
NameInOrder(rec, used) ==
    rec.has_ui /\ rec.has_name /\ rec.name \in Names => NameIndex(rec.name) <= used + 1
NamesUsed(rec, used) ==
    IF rec.has_ui /\ rec.has_name /\ rec.name \in Names /\ NameIndex(rec.name) > used
    THEN NameIndex(rec.name) ELSE used
\* malformed items in an input
InputFaults(input) == IF input = "xml" THEN 0 ELSE 1
RecordFaults(rec) ==
    IF ~rec.has_ui \/ ~rec.has_name \/ rec.name = NoneName THEN 1 ELSE 0
CodeFaults(t) == IF t = NoneCode THEN 1 ELSE 0

\* v2: the record is skipped by one of the two `continue`s
v2_skips(rec) == ~rec.has_ui \/ ~rec.has_name
\* v1: `.find(...).text` on a missing element raises
v1_record_error(rec) ==
    IF ~rec.has_ui \/ ~rec.has_name THEN "AttributeError" ELSE ""

\* v2: descriptor_details[descriptor_ui] = {...} for a record that is not skipped
details_entry(details, ui, name) ==
    OSet(details, ui, [mesh_id |-> ui, name |-> name, tree_numbers |-> <<>>])

\* v2: descriptor_details[descriptor_ui]['tree_numbers'].append(tree_number)
details_append(details, ui, t) ==
    LET old == OGet(details, ui)
    IN  OSet(details, ui, [old EXCEPT !.tree_numbers = @ \o <<t>>])

\* tree_number.split('.') on None raises
split_error(t) == IF t = NoneCode THEN "AttributeError" ELSE ""

\* the tables of a v2 extractor, and of a v1 extractor, as one value
V2 == [descriptor_to_tree |-> descriptor_to_tree,
       tree_to_descriptor |-> tree_to_descriptor,
       parent_child_relations |-> parent_child_relations,
       descriptor_details |-> descriptor_details,
       ui_to_tree |-> ui_to_tree,
       tree_to_ui |-> tree_to_ui]
V1 == [descriptor_to_tree |-> v1_descriptor_to_tree,
       tree_to_descriptor |-> v1_tree_to_descriptor,
       parent_child_relations |-> v1_parent_child_relations]
FreshV2 == [descriptor_to_tree |-> EmptyDict, tree_to_descriptor |-> EmptyDict,
            parent_child_relations |-> <<>>, descriptor_details |-> <<>>,
            ui_to_tree |-> EmptyDict, tree_to_ui |-> EmptyDict]
FreshV1 == [descriptor_to_tree |-> EmptyDict, tree_to_descriptor |-> EmptyDict,
            parent_child_relations |-> <<>>]

\* v2: the body of the loop over the TreeNumber elements up to the extraction
v2_register(T, ui, name, t) ==
    [T EXCEPT !.descriptor_details = details_append(@, ui, t),
              !.descriptor_to_tree = ListAppend(@, name, t),
              !.tree_to_descriptor = DictSet(@, t, name),
              !.ui_to_tree = ListAppend(@, ui, t),
              !.tree_to_ui = DictSet(@, t, ui)]

\* A faulty loop body, to show what the order of the side effects can tell
\* apart: the extraction runs before the code just read is registered.
v2_extract_before_register(T, ui, name, t) ==
    LET ext == IF split_error(t) # "" THEN T
               ELSE [T EXCEPT !.parent_child_relations =
                        ExtractLoop([pcr |-> @, steps |-> {}], T.tree_to_descriptor,
                                    Split(t), 1).pcr]
    IN  v2_register(ext, ui, name, t)

\* v2: the whole body of the loop; the extraction adds nothing when split raises
v2_tree_number(T, ui, name, t) ==
    LET reg == v2_register(T, ui, name, t)
    IN  IF split_error(t) # "" THEN reg
        ELSE [reg EXCEPT !.parent_child_relations =
                 extract_hierarchy_relations(@, reg.tree_to_descriptor, t, name).pcr]

\* v2: the pairs for which that extraction added the edge
v2_edge_steps(T, ui, name, t) ==
    LET reg == v2_register(T, ui, name, t)
    IN  IF split_error(t) # "" THEN {}
        ELSE extract_hierarchy_relations(reg.parent_child_relations,
                                         reg.tree_to_descriptor, t, name).steps

\* v1: the body of the loop over the TreeNumber elements up to the extraction
v1_register(T, name, t) ==
    [T EXCEPT !.descriptor_to_tree = ListAppend(@, name, t),
              !.tree_to_descriptor = DictSet(@, t, name)]

\* v1: the whole body of the loop
v1_tree_number(T, name, t) ==
    LET reg == v1_register(T, name, t)
    IN  IF split_error(t) # "" THEN reg
        ELSE [reg EXCEPT !.parent_child_relations =
                 v1_extract_hierarchy_relations(@, reg.tree_to_descriptor, t, name).pcr]

\* v1: the pairs for which that extraction added the edge
v1_edge_steps_of(T, name, t) ==
    LET reg == v1_register(T, name, t)
    IN  IF split_error(t) # "" THEN {}
        ELSE v1_extract_hierarchy_relations(reg.parent_child_relations,
                                            reg.tree_to_descriptor, t, name).steps

\* the tables are those of T
IsV2(T) ==
    /\ descriptor_to_tree = T.descriptor_to_tree
    /\ tree_to_descriptor = T.tree_to_descriptor
    /\ parent_child_relations = T.parent_child_relations
    /\ descriptor_details = T.descriptor_details
    /\ ui_to_tree = T.ui_to_tree
    /\ tree_to_ui = T.tree_to_ui
IsV1(T) ==
    /\ v1_descriptor_to_tree = T.descriptor_to_tree
    /\ v1_tree_to_descriptor = T.tree_to_descriptor
    /\ v1_parent_child_relations = T.parent_child_relations
\* the next state's tables are those of T
SetV2(T) ==
    /\ descriptor_to_tree' = T.descriptor_to_tree
    /\ tree_to_descriptor' = T.tree_to_descriptor
    /\ parent_child_relations' = T.parent_child_relations
    /\ descriptor_details' = T.descriptor_details
    /\ ui_to_tree' = T.ui_to_tree
    /\ tree_to_ui' = T.tree_to_ui
SetV1(T) ==
    /\ v1_descriptor_to_tree' = T.descriptor_to_tree
    /\ v1_tree_to_descriptor' = T.tree_to_descriptor
    /\ v1_parent_child_relations' = T.parent_child_relations

\* no query has been called since the last call of parse_mesh_xml
NoneVal == [kind |-> "None"]
NoRerun == [done |-> FALSE, value |-> NoneVal]
NoCall == [method |-> "", id |-> UnknownId, term |-> "", raised |-> "", value |-> NoneVal]


\* no record has been read yet
NoRecord == [has_ui |-> FALSE, has_name |-> FALSE]
\* what is kept of a record: which of DescriptorUI and DescriptorName/String it has
Shape(rec) == [has_ui |-> rec.has_ui, has_name |-> rec.has_name]

\* __init__ of both extractors
Init ==
    /\ pc = "idle"
    /\ v1_pc = "idle"
    /\ xml_content = "xml"
    /\ descriptor_record = NoRecord
    /\ edge_steps = {}
    /\ v1_edge_steps = {}
    /\ descriptor_ui = UnknownId
    /\ descriptor_name = NoneName
    /\ tree_number = NoneCode
    /\ IsV2(FreshV2)
    /\ IsV1(FreshV1)
    /\ raised = ""
    /\ v1_raised = ""
    /\ nparses = 0
    /\ nrecords = 0
    /\ ncodes = 0
    /\ recno = 0
    /\ nfaults = 0
    /\ nnames = 0
    /\ declared = <<>>
    /\ ret = NoCall
    /\ v1_ret = NoneVal
    /\ similar_pairs = <<>>
    /\ rerun = NoRerun

v2_tables == <<descriptor_to_tree, tree_to_descriptor, parent_child_relations,
               descriptor_details, ui_to_tree, tree_to_ui>>
v1_tables == <<v1_descriptor_to_tree, v1_tree_to_descriptor, v1_parent_child_relations>>
locals == <<descriptor_record, descriptor_ui, descriptor_name, tree_number>>
steps == <<edge_steps, v1_edge_steps>>
counters == <<nparses, nrecords, ncodes, recno, nfaults, nnames>>
results == <<ret, v1_ret, similar_pairs, rerun>>

\* parse_mesh_xml is called on both extractors with the same content
ParseOpen(input) ==
    /\ pc = "idle"
    /\ nparses < MaxParses
    /\ nfaults + InputFaults(input) <= MaxFaults
    /\ nparses' = nparses + 1
    /\ nfaults' = nfaults + InputFaults(input)
    /\ xml_content' = input
    /\ raised' = OpenError(input)
    /\ v1_raised' = OpenError(input)
    /\ descriptor_details' = details_after_open(descriptor_details, input)
    /\ pc' = IF OpenError(input) = "" THEN "records" ELSE "idle"
    /\ v1_pc' = IF OpenError(input) = "" THEN "records" ELSE "idle"
    /\ recno' = IF OpenError(input) = "" THEN 0 ELSE recno
    /\ declared' = IF OpenError(input) = "" THEN <<>> ELSE declared
    /\ ret' = NoCall /\ v1_ret' = NoneVal /\ similar_pairs' = <<>> /\ rerun' = NoRerun
    /\ UNCHANGED <<descriptor_to_tree, tree_to_descriptor, parent_child_relations,
                   ui_to_tree, tree_to_ui, v1_tables, locals, steps, nrecords, ncodes, nnames>>

\* the head of the loop over the records: the identifier, the name, the details entry
RecordHead(rec) ==
    /\ pc = "records"
    /\ nrecords < MaxRecords
    /\ nfaults + RecordFaults(rec) <= MaxFaults
    /\ NameInOrder(rec, nnames)
    /\ nrecords' = nrecords + 1
    /\ nfaults' = nfaults + RecordFaults(rec)
    /\ nnames' = NamesUsed(rec, nnames)
    /\ recno' = recno + 1
    /\ descriptor_record' = Shape(rec)
    /\ IF v2_skips(rec)
       THEN /\ pc' = "records"
            /\ UNCHANGED <<descriptor_details, descriptor_ui, descriptor_name>>
       ELSE /\ descriptor_ui' = recno + 1
            /\ descriptor_name' = rec.name
            /\ descriptor_details' = details_entry(descriptor_details, recno + 1, rec.name)
            /\ pc' = IF rec.has_list THEN "codes" ELSE "records"
    /\ IF v1_pc = "records"
       THEN IF v1_record_error(rec) # ""
            THEN v1_pc' = "idle" /\ v1_raised' = v1_record_error(rec)
            ELSE /\ v1_pc' = IF rec.has_list THEN "codes" ELSE "records"
                 /\ UNCHANGED v1_raised
       ELSE UNCHANGED <<v1_pc, v1_raised>>
    /\ UNCHANGED <<descriptor_to_tree, tree_to_descriptor, parent_child_relations,
                   ui_to_tree, tree_to_ui, v1_tables, raised, tree_number,
                   nparses, ncodes, declared, results, steps, xml_content>>

\* one TreeNumber element: the registrations and the extraction
TreeNumber(t) ==
    /\ pc = "codes"
    /\ ncodes < MaxCodes
    /\ nfaults + CodeFaults(t) <= MaxFaults
    /\ ncodes' = ncodes + 1
    /\ nfaults' = nfaults + CodeFaults(t)
    /\ tree_number' = t
    /\ declared' = Append(declared, [ui |-> descriptor_ui, name |-> descriptor_name, code |-> t])
    /\ SetV2(v2_tree_number(V2, descriptor_ui, descriptor_name, t))
    /\ edge_steps' = v2_edge_steps(V2, descriptor_ui, descriptor_name, t)
    /\ raised' = split_error(t)
    /\ pc' = IF split_error(t) # "" THEN "idle" ELSE "codes"
    /\ IF v1_pc = "codes"
       THEN /\ SetV1(v1_tree_number(V1, descriptor_name, t))
            /\ v1_edge_steps' = v1_edge_steps_of(V1, descriptor_name, t)
            /\ v1_raised' = split_error(t)
            /\ v1_pc' = IF split_error(t) # "" THEN "idle" ELSE "codes"
       ELSE UNCHANGED <<v1_tables, v1_raised, v1_pc, v1_edge_steps>>
    /\ UNCHANGED <<descriptor_record, descriptor_ui, descriptor_name, nparses, nrecords,
                   recno, nnames, results, xml_content>>

\* the TreeNumber elements of the record are exhausted
RecordEnd ==
    /\ pc = "codes"
    /\ pc' = "records"
    /\ v1_pc' = IF v1_pc = "codes" THEN "records" ELSE v1_pc
    /\ UNCHANGED <<v2_tables, v1_tables, locals, counters, raised, v1_raised, declared, results,
                   steps, xml_content>>

\* the records are exhausted: parse_mesh_xml returns
ParseReturn ==
    /\ pc = "records"
    /\ pc' = "idle"
    /\ v1_pc' = "idle"
    /\ UNCHANGED <<v2_tables, v1_tables, locals, counters, raised, v1_raised, declared, results,
                   steps, xml_content>>

(* ------------------------- set iteration ------------------------------ *)
\* list(S) for a set S of strings: the order follows the strings' hashes, which
\* the interpreter seeds anew in every process, so any order can come out
Orders(S) ==
    {f \in [1..Cardinality(S) -> S] : \A i, j \in 1..Cardinality(S) : f[i] = f[j] => i = j}

\* one order for the child set of every key of parent_child_relations; within one
\* call a set that is not modified is listed in the same order every time
RECURSIVE ListOrders(_)
ListOrders(pcr) ==
    IF pcr = <<>> THEN {<<>>}
    ELSE {Append(os, o) : os \in ListOrders(SubSeq(pcr, 1, Len(pcr) - 1)),
                          o \in Orders(pcr[Len(pcr)].val)}

(* ------------------- get_label_hierarchy_for_micol -------------------- *)
\* A faulty first loop, to show what the relation kinds can tell apart: the
\* tag is spelled with a hyphen.
ParentChildTriplesHyphen(parent, children_list) ==
    [j \in 1..Len(children_list) |-> <<parent, children_list[j], "parent-child">>]

\* for child in children: append (parent, child, "parent_child")
ParentChildTriples(parent, children_list) ==
    [j \in 1..Len(children_list) |-> <<parent, children_list[j], "parent_child">>]

\* A faulty inner loop, to show what the sibling count can tell apart: the
\* slice starts at i instead of i+1, so child1 is paired with itself too.
SiblingTriplesFromSelf(children_list, i) ==
    [j \in 1..(Len(children_list) - i + 1) |->
        <<children_list[i], children_list[i + j - 1], "siblings">>]

\* for child2 in children_list[i+1:]: append (child1, child2, "siblings"),
\* child1 being the element at (1-based) position i
SiblingTriplesAt(children_list, i) ==
    [j \in 1..(Len(children_list) - i) |->
        <<children_list[i], children_list[i + j], "siblings">>]

\* for i, child1 in enumerate(children_list), from position i on
RECURSIVE SiblingTriplesFrom(_, _)
SiblingTriplesFrom(children_list, i) ==
    IF i > Len(children_list) THEN <<>>
    ELSE SiblingTriplesAt(children_list, i) \o SiblingTriplesFrom(children_list, i + 1)

SiblingTriples(children_list) == SiblingTriplesFrom(children_list, 1)

\* the first loop over parent_child_relations.items(), from entry i on
RECURSIVE ParentChildPart(_, _, _)
ParentChildPart(pcr, lists, i) ==
    IF i > Len(pcr) THEN <<>>
    ELSE ParentChildTriples(pcr[i].key, lists[i]) \o ParentChildPart(pcr, lists, i + 1)

\* the second loop over parent_child_relations.items(), from entry i on
RECURSIVE SiblingPart(_, _, _)
SiblingPart(pcr, lists, i) ==
    IF i > Len(pcr) THEN <<>>
    ELSE SiblingTriples(lists[i]) \o SiblingPart(pcr, lists, i + 1)

\* v2: the list similar_pairs when the two loops are done
similar_pairs_of(pcr, lists) ==
    ParentChildPart(pcr, lists, 1) \o SiblingPart(pcr, lists, 1)

\* v2: what the method returns: it has no return statement
get_label_hierarchy_for_micol(pcr, lists) == NoneVal

\* v1: the list similar_pairs when the two loops are done
v1_similar_pairs_of(pcr, lists) ==
    ParentChildPart(pcr, lists, 1) \o SiblingPart(pcr, lists, 1)

\* v1: what the method returns: `return similar_pairs`
v1_get_label_hierarchy_for_micol(pcr, lists) ==
    [kind |-> "list", items |-> v1_similar_pairs_of(pcr, lists)]

\* the "similar_pairs" entry of the hierarchy_data that save_hierarchy_data
\* dumps to the file and returns
save_hierarchy_data(pcr, lists) ==
    [kind |-> "dict", similar_pairs |-> get_label_hierarchy_for_micol(pcr, lists)]
v1_save_hierarchy_data(pcr, lists) ==
    [kind |-> "dict", similar_pairs |-> v1_get_label_hierarchy_for_micol(pcr, lists)]

(* ----------------------------- lookups -------------------------------- *)
\* str.lower() on the strings of the model
Lower(str) ==
    CASE str = "Root" -> "root"
      [] str = "ROOT" -> "root"
      [] str = "A" -> "a"
      [] str = "B" -> "b"
      [] str = "C" -> "c"
      [] str = "D" -> "d"
      [] OTHER -> str
\* `x.lower()` raises on None
lower_error(str) == IF str = NoneName THEN "AttributeError" ELSE ""

\* the identifiers and the terms the lookups are called with
QueryIds == 0..MaxRecords
QueryTerms == {"ROOT", "zzz"}

Returned(v) == [raised |-> "", value |-> v]
Raised(e) == [raised |-> e, value |-> NoneVal]

get_mesh_by_id(details, mesh_id) ==
    IF OHas(details, mesh_id)
    THEN [kind |-> "dict", MeSH_Unique_ID |-> mesh_id,
          Tree_Numbers |-> OGet(details, mesh_id).tree_numbers,
          Term_Name |-> OGet(details, mesh_id).name]
    ELSE NoneVal

\* the loop of search_mesh_by_name over descriptor_details.items(), from entry i on
RECURSIVE SearchFrom(_, _, _)
SearchFrom(details, term_name, i) ==
    IF i > Len(details) THEN Returned(NoneVal)
    ELSE IF lower_error(details[i].val.name) # ""
         THEN Raised(lower_error(details[i].val.name))
    ELSE IF Lower(details[i].val.name) = Lower(term_name)
         THEN Returned(get_mesh_by_id(details, details[i].key))
    ELSE SearchFrom(details, term_name, i + 1)

search_mesh_by_name(details, term_name) == SearchFrom(details, term_name, 1)

\* dict.get(key, default) on parent_child_relations: the table afterwards
relations_after_get(pcr, key) == pcr

\* the loop over tree_numbers that collects the parents, from position i on
RECURSIVE ParentsFrom(_, _, _, _)
ParentsFrom(details, t2u, tree_numbers, i) ==
    IF i > Len(tree_numbers) THEN Returned(<<>>)
    ELSE IF split_error(tree_numbers[i]) # "" THEN Raised(split_error(tree_numbers[i]))
    ELSE LET parts == Split(tree_numbers[i])
             parent_tree == Join(Take(parts, Len(parts) - 1))
             rest == ParentsFrom(details, t2u, tree_numbers, i + 1)
         IN  IF Len(parts) > 1 /\ parent_tree \in DOMAIN t2u
             THEN IF ~OHas(details, t2u[parent_tree]) THEN Raised("KeyError")
                  ELSE IF rest.raised # "" THEN rest
                  ELSE Returned(<<[id |-> t2u[parent_tree],
                                   name |-> OGet(details, t2u[parent_tree]).name]>>
                                \o rest.value)
             ELSE rest

\* children_list is list(parent_child_relations.get(term_name, []))
get_hierarchy_relations_by_id(T, mesh_id, children_list) ==
    IF ~OHas(T.descriptor_details, mesh_id) THEN Returned(NoneVal)
    ELSE LET entry == OGet(T.descriptor_details, mesh_id)
             parents == ParentsFrom(T.descriptor_details, T.tree_to_ui, entry.tree_numbers, 1)
         IN  IF parents.raised # "" THEN parents
             ELSE Returned([kind |-> "dict", mesh_id |-> mesh_id, term_name |-> entry.name,
                            parents |-> parents.value, children |-> children_list,
                            tree_numbers |-> entry.tree_numbers])

\* the child set the method lists: empty when the name is no key
ChildrenOf(pcr, name) == IF OHas(pcr, name) THEN OGet(pcr, name) ELSE {}
NameOfId(details, mesh_id) ==
    IF OHas(details, mesh_id) THEN OGet(details, mesh_id).name ELSE NoneName

\* The caller keeps one result at a time: a lookup is called when the last
\* result has been dropped (DropResult).
Call(method, id, term, res) ==
    [method |-> method, id |-> id, term |-> term, raised |-> res.raised, value |-> res.value]

CallGetMeshById(mesh_id) ==
    /\ pc = "idle"
    /\ ret = NoCall
    /\ ret' = Call("get_mesh_by_id", mesh_id, "", Returned(get_mesh_by_id(descriptor_details, mesh_id)))
    /\ v1_ret' = NoneVal /\ similar_pairs' = <<>> /\ rerun' = NoRerun
    /\ UNCHANGED <<pc, v1_pc, v2_tables, v1_tables, locals, counters, raised, v1_raised,
                   declared, steps, xml_content>>

CallSearchMeshByName(term_name) ==
    /\ pc = "idle"
    /\ ret = NoCall
    /\ ret' = Call("search_mesh_by_name", UnknownId, term_name,
                   search_mesh_by_name(descriptor_details, term_name))
    /\ v1_ret' = NoneVal /\ similar_pairs' = <<>> /\ rerun' = NoRerun
    /\ UNCHANGED <<pc, v1_pc, v2_tables, v1_tables, locals, counters, raised, v1_raised,
                   declared, steps, xml_content>>

CallGetHierarchyRelationsById(mesh_id) ==
    /\ pc = "idle"
    /\ ret = NoCall
    /\ \E children_list \in
            Orders(ChildrenOf(parent_child_relations, NameOfId(descriptor_details, mesh_id))) :
         ret' = Call("get_hierarchy_relations_by_id", mesh_id, "",
                     get_hierarchy_relations_by_id(V2, mesh_id, children_list))
    /\ parent_child_relations' =
          IF OHas(descriptor_details, mesh_id)
          THEN relations_after_get(parent_child_relations, NameOfId(descriptor_details, mesh_id))
          ELSE parent_child_relations
    /\ v1_ret' = NoneVal /\ similar_pairs' = <<>> /\ rerun' = NoRerun
    /\ UNCHANGED <<pc, v1_pc, descriptor_to_tree, tree_to_descriptor, descriptor_details,
                   ui_to_tree, tree_to_ui, v1_tables, locals, counters, raised, v1_raised,
                   declared, steps, xml_content>>

\* get_label_hierarchy_for_micol on both extractors (one process: equal tables
\* built by the same insertions list their sets alike)
CallGetLabelHierarchyForMicol ==
    /\ pc = "idle"
    /\ ret = NoCall
    /\ \E lists \in ListOrders(parent_child_relations),
          v1_lists \in ListOrders(v1_parent_child_relations) :
         /\ v1_parent_child_relations = parent_child_relations => v1_lists = lists
         /\ similar_pairs' = similar_pairs_of(parent_child_relations, lists)
         /\ ret' = Call("get_label_hierarchy_for_micol", UnknownId, "",
                        Returned(get_label_hierarchy_for_micol(parent_child_relations, lists)))
         /\ v1_ret' = v1_get_label_hierarchy_for_micol(v1_parent_child_relations, v1_lists)
    /\ rerun' = NoRerun
    /\ UNCHANGED <<pc, v1_pc, v2_tables, v1_tables, locals, counters, raised, v1_raised,
                   declared, steps, xml_content>>

\* the same call of v1's get_label_hierarchy_for_micol in a second interpreter
\* process that has parsed the same content into equal tables
RerunGetLabelHierarchyForMicol ==
    /\ pc = "idle"
    /\ ret.method = "get_label_hierarchy_for_micol"
    /\ \E lists2 \in ListOrders(v1_parent_child_relations) :
         rerun' = [done |-> TRUE,
                   value |-> v1_get_label_hierarchy_for_micol(v1_parent_child_relations, lists2)]
    /\ UNCHANGED <<pc, v1_pc, v2_tables, v1_tables, locals, counters, raised, v1_raised,
                   declared, ret, v1_ret, similar_pairs, steps, xml_content>>

CallSaveHierarchyData ==
    /\ pc = "idle"
    /\ ret = NoCall
    /\ \E lists \in ListOrders(parent_child_relations),
          v1_lists \in ListOrders(v1_parent_child_relations) :
         /\ v1_parent_child_relations = parent_child_relations => v1_lists = lists
         /\ similar_pairs' = similar_pairs_of(parent_child_relations, lists)
         /\ ret' = Call("save_hierarchy_data", UnknownId, "",
                        Returned(save_hierarchy_data(parent_child_relations, lists)))
         /\ v1_ret' = v1_save_hierarchy_data(v1_parent_child_relations, v1_lists)
    /\ rerun' = NoRerun
    /\ UNCHANGED <<pc, v1_pc, v2_tables, v1_tables, locals, counters, raised, v1_raised,
                   declared, steps, xml_content>>

\* the caller lets go of the last result
DropResult ==
    /\ pc = "idle"
    /\ ret # NoCall
    /\ ret' = NoCall /\ v1_ret' = NoneVal /\ similar_pairs' = <<>> /\ rerun' = NoRerun
    /\ UNCHANGED <<pc, v1_pc, v2_tables, v1_tables, locals, counters, raised, v1_raised,
                   declared, steps, xml_content>>

Next ==
    \/ \E input \in Inputs : ParseOpen(input)
    \/ \E rec \in RecordInputs : RecordHead(rec)
    \/ \E t \in CodeTexts : TreeNumber(t)
    \/ RecordEnd
    \/ ParseReturn
    \/ \E mesh_id \in QueryIds : CallGetMeshById(mesh_id)
    \/ \E term_name \in QueryTerms : CallSearchMeshByName(term_name)
    \/ \E mesh_id \in QueryIds : CallGetHierarchyRelationsById(mesh_id)
    \/ CallGetLabelHierarchyForMicol
    \/ RerunGetLabelHierarchyForMicol
    \/ CallSaveHierarchyData
    \/ DropResult

Spec == Init /\ [][Next]_vars

\* parse_mesh_xml alone: the calls that change the tables
ParseNext ==
    \/ \E input \in Inputs : ParseOpen(input)
    \/ \E rec \in RecordInputs : RecordHead(rec)
    \/ \E t \in CodeTexts : TreeNumber(t)
    \/ RecordEnd
    \/ ParseReturn

ParseSpec == Init /\ [][ParseNext]_vars

(* ------------- pair generation over parsed catalogs ------------------- *)
\* A catalog of PairSpec: well-formed records, the k-th with identifier k, name
\* NameSeq[k] and one TreeNumber; the catalog is the sequence of these codes.
FanCatalogs == UNION {[1..n -> FanCodes] : n \in 0..MaxFan}

\* the v2 tables after parse_mesh_xml has read a whole catalog on a new extractor
RECURSIVE V2AfterCatalog(_)
V2AfterCatalog(cat) ==
    IF cat = <<>> THEN FreshV2
    ELSE LET k == Len(cat)
             before == V2AfterCatalog(SubSeq(cat, 1, k - 1))
             head == [before EXCEPT !.descriptor_details = details_entry(@, k, NameSeq[k])]
         IN  v2_tree_number(head, k, NameSeq[k], cat[k])

\* the v1 tables after the same call
RECURSIVE V1AfterCatalog(_)
V1AfterCatalog(cat) ==
    IF cat = <<>> THEN FreshV1
    ELSE v1_tree_number(V1AfterCatalog(SubSeq(cat, 1, Len(cat) - 1)), NameSeq[Len(cat)],
                        cat[Len(cat)])

\* both extractors have parsed one catalog and parse_mesh_xml has returned
PairInit ==
    \E cat \in FanCatalogs :
        /\ pc = "idle"
        /\ v1_pc = "idle"
        /\ xml_content = "xml"
        /\ descriptor_record =
              IF cat = <<>> THEN NoRecord
              ELSE [has_ui |-> TRUE, has_name |-> TRUE]
        /\ edge_steps =
              IF cat = <<>> THEN {}
              ELSE LET k == Len(cat)
                       before == V2AfterCatalog(SubSeq(cat, 1, k - 1))
                   IN  v2_edge_steps([before EXCEPT !.descriptor_details =
                                          details_entry(@, k, NameSeq[k])],
                                     k, NameSeq[k], cat[k])
        /\ v1_edge_steps =
              IF cat = <<>> THEN {}
              ELSE v1_edge_steps_of(V1AfterCatalog(SubSeq(cat, 1, Len(cat) - 1)),
                                    NameSeq[Len(cat)], cat[Len(cat)])
        /\ descriptor_ui = Len(cat)
        /\ descriptor_name = IF cat = <<>> THEN NoneName ELSE NameSeq[Len(cat)]
        /\ tree_number = IF cat = <<>> THEN NoneCode ELSE cat[Len(cat)]
        /\ IsV2(V2AfterCatalog(cat))
        /\ IsV1(V1AfterCatalog(cat))
        /\ raised = ""
        /\ v1_raised = ""
        /\ nparses = 1
        /\ nrecords = Len(cat)
        /\ ncodes = Len(cat)
        /\ recno = Len(cat)
        /\ nfaults = 0
        /\ nnames = Len(cat)
        /\ declared = [k \in 1..Len(cat) |-> [ui |-> k, name |-> NameSeq[k], code |-> cat[k]]]
        /\ ret = NoCall
        /\ v1_ret = NoneVal
        /\ similar_pairs = <<>>
        /\ rerun = NoRerun

PairNext ==
    \/ CallGetLabelHierarchyForMicol
    \/ RerunGetLabelHierarchyForMicol
    \/ CallSaveHierarchyData
    \/ DropResult

PairSpec == PairInit /\ [][PairNext]_vars

(* ----------------- lookups over parsed catalogs ----------------------- *)
\* the identifiers of the records of such a catalog, and one no record has
FanIds == 0..MaxFan

LookupNext ==
    \/ \E mesh_id \in FanIds : CallGetMeshById(mesh_id)
    \/ \E term_name \in QueryTerms : CallSearchMeshByName(term_name)
    \/ \E mesh_id \in FanIds : CallGetHierarchyRelationsById(mesh_id)
    \/ DropResult

LookupSpec == PairInit /\ [][LookupNext]_vars

(* ====================================================================== *)
(*                              properties                                *)
(* ====================================================================== *)
\* number of dot-separated segments of a code
Depth(c) == Len(Split(c))
\* a code with its last segment stripped
ParentCode(c) == Join(Take(Split(c), Depth(c) - 1))
\* the codes of both tables that can be the child of a code pair
ChildCodes(ttd) == {c \in DOMAIN ttd : c # NoneCode /\ Depth(c) >= 2 /\ ParentCode(c) \in DOMAIN ttd}
\* the edges the code pairs of a table stand for
PairEdges(ttd) == {<<ttd[ParentCode(c)], ttd[c]>> : c \in ChildCodes(ttd)}
\* a step of TreeNumber (one TreeNumber element read)
TreeNumberStep == ncodes' = ncodes + 1
\* v1 took part in that step
V1TreeNumberStep == TreeNumberStep /\ v1_pc = "codes"

\* C1: every edge (P, C) that a step adds to parent_child_relations has, in
\* tree_to_descriptor as it stands when the edge is created, a code c owned by
\* C whose parent code (c without its last segment) is owned by P; both codes
\* are keys of the table at that moment.  Checked for v2 and for v1.
C1_EdgeHasWitnessCodes ==
    [][/\ \A e \in Edges(parent_child_relations') \ Edges(parent_child_relations) :
            e \in PairEdges(tree_to_descriptor')
       /\ \A e \in Edges(v1_parent_child_relations') \ Edges(v1_parent_child_relations) :
            e \in PairEdges(v1_tree_to_descriptor')]_vars

\* an edge has just been created for the code read last and its parent code
C1_Witness ==
    /\ pc = "codes"
    /\ tree_number \in ChildCodes(tree_to_descriptor)
    /\ <<ParentCode(tree_number), tree_number>> \in edge_steps
    /\ <<tree_to_descriptor[ParentCode(tree_number)], tree_to_descriptor[tree_number]>>
          \in Edges(parent_child_relations)
    /\ tree_to_descriptor[ParentCode(tree_number)] # tree_to_descriptor[tree_number]

(* ------------------------ declaration order --------------------------- *)
\* positions of a code in the codes read so far in the current pass
Positions(c) == {i \in DOMAIN declared : declared[i].code = c}
Min(S) == CHOOSE x \in S : \A y \in S : x <= y
Max(S) == CHOOSE x \in S : \A y \in S : x >= y
\* c is a proper prefix of x, segment by segment
Extends(x, c) ==
    /\ x # NoneCode /\ c # NoneCode
    /\ Depth(x) > Depth(c)
    /\ Join(Take(Split(x), Depth(c))) = c
\* a full pass over a catalog has just returned, v2 / v1
FullPass == pc = "idle" /\ nparses > 0 /\ raised = ""
V1FullPass == FullPass /\ v1_pc = "idle" /\ v1_raised = ""
\* that pass began on empty tables and its catalog declares no code twice
FreshSinglePass ==
    /\ ncodes = Len(declared)
    /\ \A i, j \in DOMAIN declared : declared[i].code = declared[j].code => i = j
\* the code pairs of the final table whose edge the pass created: the child
\* was read after the parent, or a code extending the child was read after both
OrderedPairEdges(ttd) ==
    {<<ttd[ParentCode(c)], ttd[c]>> : c \in
        {c \in ChildCodes(ttd) :
            \/ Min(Positions(c)) > Min(Positions(ParentCode(c)))
            \/ \E x \in DOMAIN ttd :
                  /\ Extends(x, c)
                  /\ Min(Positions(x)) > Min(Positions(c))
                  /\ Min(Positions(x)) > Min(Positions(ParentCode(c)))}}

\* C2 as stated: after a full pass, parent_child_relations holds the edge
\* (P, C) if and only if the final tree_to_descriptor holds a code c of depth
\* at least 2 owned by C whose parent code is owned by P.
C2_EdgeIffFinalCodePair ==
    /\ FullPass => Edges(parent_child_relations) = PairEdges(tree_to_descriptor)
    /\ V1FullPass => Edges(v1_parent_child_relations) = PairEdges(v1_tree_to_descriptor)

\* C2 (amended): after a full pass on a new extractor over a catalog that
\* declares no code twice, parent_child_relations holds the edge (P, C) if and
\* only if the final tree_to_descriptor holds a code c of depth at least 2
\* owned by C whose parent code is owned by P, and c was read after its parent
\* code or a code extending c was read after both.
C2_EdgeIffOrderedCodePair ==
    /\ FullPass /\ FreshSinglePass
         => Edges(parent_child_relations) = OrderedPairEdges(tree_to_descriptor)
    /\ V1FullPass /\ FreshSinglePass
         => Edges(v1_parent_child_relations) = OrderedPairEdges(v1_tree_to_descriptor)

\* a full pass in which a child code came before its parent code, and the
\* pass still created the edge of that pair, on the reading of a later code
C2_Witness ==
    /\ V1FullPass /\ FreshSinglePass
    /\ \E c \in ChildCodes(tree_to_descriptor) :
          /\ Min(Positions(c)) < Min(Positions(ParentCode(c)))
          /\ tree_to_descriptor[ParentCode(c)] # tree_to_descriptor[c]
          /\ <<tree_to_descriptor[ParentCode(c)], tree_to_descriptor[c]>>
                \in Edges(parent_child_relations)
          /\ <<tree_to_descriptor[ParentCode(c)], tree_to_descriptor[c]>>
                \in Edges(v1_parent_child_relations)

\* c was read, every time, before its parent code p was first read
ChildFirst(c, p) ==
    /\ Positions(c) # {} /\ Positions(p) # {}
    /\ Max(Positions(c)) < Min(Positions(p))

\* C3 as stated: when a code c is read before its parent code, no step ever
\* adds the edge for that code pair: not the reading of c, not the reading of
\* the parent code, not the reading of a later code that has c as a prefix.
C3_ChildFirstNeverAdded ==
    [][TreeNumberStep =>
         \A pr \in edge_steps' \cup v1_edge_steps' : ~ChildFirst(pr[2], pr[1])']_vars

\* the code pairs along the code just read that are keys of the table
PairsAlong(t, ttd) ==
    {<<ParentCode(c), c>> : c \in
        {c \in ChildCodes(ttd) : t # NoneCode /\ (c = t \/ Extends(t, c))}}

\* C3 (amended): reading a code t adds the edge of a code pair (parent(c), c)
\* exactly when c is t or a prefix of t and both c and parent(c) are keys of
\* tree_to_descriptor, t included.  So when c is read while parent(c) is not a
\* key, that reading adds no edge for the pair, nor does the reading of
\* parent(c); a later reading of a code that has c as a prefix adds it.
C3_AddedByCodesAlong ==
    [][/\ TreeNumberStep =>
            /\ edge_steps' = PairsAlong(tree_number', tree_to_descriptor')
            /\ \A pr \in edge_steps' :
                  <<tree_to_descriptor'[pr[1]], tree_to_descriptor'[pr[2]]>>
                     \in Edges(parent_child_relations')
       /\ V1TreeNumberStep =>
            /\ v1_edge_steps' = PairsAlong(tree_number', v1_tree_to_descriptor')
            /\ \A pr \in v1_edge_steps' :
                  <<v1_tree_to_descriptor'[pr[1]], v1_tree_to_descriptor'[pr[2]]>>
                     \in Edges(v1_parent_child_relations')]_vars

\* a code extending c has just been read, after c and then its parent code,
\* and the edge of (parent(c), c) was added by that reading
C3_Witness ==
    /\ pc = "codes"
    /\ \E pr \in edge_steps :
          /\ ChildFirst(pr[2], pr[1])
          /\ Extends(tree_number, pr[2])
          /\ <<tree_to_descriptor[pr[1]], tree_to_descriptor[pr[2]]>>
                \in Edges(parent_child_relations)

(* --------------------------- pair generation -------------------------- *)
\* the number of edges of the entries 1..i of a table
RECURSIVE EdgeCount(_, _)
EdgeCount(pcr, i) ==
    IF i = 0 THEN 0 ELSE EdgeCount(pcr, i - 1) + Cardinality(pcr[i].val)
\* k*(k-1)/2
PairsOf(k) == (k * (k - 1)) \div 2
\* the number of unordered pairs of children of the entries 1..i of a table
RECURSIVE SiblingCount(_, _)
SiblingCount(pcr, i) ==
    IF i = 0 THEN 0 ELSE SiblingCount(pcr, i - 1) + PairsOf(Cardinality(pcr[i].val))
\* items is one parent_child triple per edge, then sibling triples only
IsConcatenation(items, pcr) ==
    LET n == EdgeCount(pcr, Len(pcr))
    IN  /\ Len(items) >= n
        /\ \A e \in Edges(pcr) :
              Cardinality({j \in 1..n : items[j] = <<e[1], e[2], "parent_child">>}) = 1
        /\ \A j \in 1..n : items[j][3] = "parent_child"
        /\ \A j \in (n + 1)..Len(items) : items[j][3] = "siblings"
\* the value a call returned is a list
IsList(v) == v.kind = "list"

\* C4 as stated: get_label_hierarchy_for_micol returns a list: one
\* parent_child triple per edge of parent_child_relations, then the sibling
\* triples, none of them before a parent_child triple; and
\* save_hierarchy_data stores such a list under "similar_pairs".
C4_ReturnsConcatenation ==
    /\ ret.method = "get_label_hierarchy_for_micol" =>
          /\ IsList(ret.value) /\ IsConcatenation(ret.value.items, parent_child_relations)
          /\ IsList(v1_ret) /\ IsConcatenation(v1_ret.items, v1_parent_child_relations)
    /\ ret.method = "save_hierarchy_data" =>
          /\ IsList(ret.value.similar_pairs)
          /\ IsConcatenation(ret.value.similar_pairs.items, parent_child_relations)
          /\ IsList(v1_ret.similar_pairs)
          /\ IsConcatenation(v1_ret.similar_pairs.items, v1_parent_child_relations)

\* pair generation has just run (both methods run it)
PairsGenerated == ret.method \in {"get_label_hierarchy_for_micol", "save_hierarchy_data"}
\* the list v1 built
V1Items ==
    IF ret.method = "save_hierarchy_data" THEN v1_ret.similar_pairs.items ELSE v1_ret.items
\* the sibling triples emitted for entry i of the table: the second loop
\* emits them entry by entry, after the triples of the first loop
SiblingSegment(items, pcr, i) ==
    SubSeq(items, EdgeCount(pcr, Len(pcr)) + SiblingCount(pcr, i - 1) + 1,
                  EdgeCount(pcr, Len(pcr)) + SiblingCount(pcr, i))
SiblingsExact(items, pcr) ==
    /\ Len(items) = EdgeCount(pcr, Len(pcr)) + SiblingCount(pcr, Len(pcr))
    /\ Cardinality({j \in DOMAIN items : items[j][3] = "siblings"}) = SiblingCount(pcr, Len(pcr))
    /\ \A i \in DOMAIN pcr :
          LET seg == SiblingSegment(items, pcr, i)
              children == pcr[i].val
          IN  /\ Len(seg) = PairsOf(Cardinality(children))
              /\ \A j \in DOMAIN seg :
                    /\ seg[j][3] = "siblings"
                    /\ seg[j][1] # seg[j][2]
                    /\ {seg[j][1], seg[j][2]} \subseteq children
              /\ \A a, b \in children :
                    a # b => Cardinality({j \in DOMAIN seg : {seg[j][1], seg[j][2]} = {a, b}}) = 1

\* C5: for every parent whose child set has k members, pair generation emits
\* exactly k*(k-1)/2 triples tagged "siblings" for it, one per unordered pair of
\* distinct children, and no sibling triple has the same name in both
\* positions.  Checked on the list v2 builds and on the list v1 returns.
C5_SiblingCount ==
    PairsGenerated =>
        /\ SiblingsExact(similar_pairs, parent_child_relations)
        /\ SiblingsExact(V1Items, v1_parent_child_relations)

\* pairs have been generated for a parent of three children
C5_Witness ==
    /\ PairsGenerated
    /\ \E i \in DOMAIN parent_child_relations :
          /\ Cardinality(parent_child_relations[i].val) = 3
          /\ Len(SiblingSegment(similar_pairs, parent_child_relations, i)) = 3

(* ------------------------- malformed input ---------------------------- *)
\* a record has just been read that lacks its identifier or its name
SkippedRecordStep ==
    /\ nrecords' = nrecords + 1
    /\ ~descriptor_record'.has_ui \/ ~descriptor_record'.has_name

\* C6 as stated: a record that lacks its identifier element or its name
\* element is skipped: no error is raised, no table changes, none of its codes
\* is read, and the pass goes on with the next record.  For v2 and for v1.
C6_RecordSkipped ==
    [][SkippedRecordStep =>
          /\ UNCHANGED <<v2_tables, v1_tables>>
          /\ raised' = raised /\ pc' = "records"
          /\ v1_raised' = v1_raised /\ v1_pc' = v1_pc]_vars

\* C7 as stated, for v2: parse_mesh_xml never raises because of a malformed
\* record; the only errors it raises come from content that is not markup.
C7_NoErrorFromRecords ==
    raised \in {"", "ParseError", "UnicodeDecodeError"}

\* parse_mesh_xml has just been called on content that is not markup
UnparseableStep == nparses' = nparses + 1 /\ xml_content' # "xml"

\* C8: when the content cannot be parsed as markup, parse_mesh_xml fails with
\* an error and every table of the extractor is as it was before the call.
\* For v2 and for v1.
C8_AllOrNothing ==
    [][UnparseableStep =>
          /\ raised' # "" /\ v1_raised' # ""
          /\ pc' = "idle" /\ v1_pc' = "idle"
          /\ UNCHANGED <<v2_tables, v1_tables>>]_vars

\* a call on content that is not markup has failed on an extractor whose
\* tables, descriptor_details included, hold a catalog read earlier
C8_Witness ==
    /\ pc = "idle"
    /\ xml_content # "xml"
    /\ raised \in {"ParseError", "UnicodeDecodeError"}
    /\ Len(descriptor_details) > 0
    /\ Edges(parent_child_relations) # {}
    /\ Edges(v1_parent_child_relations) # {}

(* ------------------------------ lookups ------------------------------- *)
\* one of the three lookups has just been called
LookupStep ==
    /\ ret = NoCall
    /\ ret'.method \in {"get_mesh_by_id", "search_mesh_by_name", "get_hierarchy_relations_by_id"}
\* the key the lookup was called with is not known to the extractor
UnknownKey(call) ==
    IF call.method = "search_mesh_by_name"
    THEN \A i \in DOMAIN descriptor_details :
            \/ descriptor_details[i].val.name = NoneName
            \/ Lower(descriptor_details[i].val.name) # Lower(call.term)
    ELSE ~OHas(descriptor_details, call.id)

\* C9 as stated: the three lookups leave every table unchanged, and for an
\* identifier or a name that is not known they return None and do not raise,
\* in every state the extractor can reach.
C9_LookupsPureAndAbsent ==
    [][LookupStep =>
          /\ UNCHANGED v2_tables
          /\ UnknownKey(ret') => ret'.raised = "" /\ ret'.value = NoneVal]_vars

\* C10 as stated: two runs of get_label_hierarchy_for_micol on the same
\* parent_child_relations, built from the same catalog in the same order,
\* return the same sequence of triples.
C10_SameSequence ==
    rerun.done => rerun.value = v1_ret

(* --------------------------- depth-1 codes ---------------------------- *)
\* the catalog read so far in this pass, on a new extractor, is the single
\* record Root with the single code C01
OnlyRootRead ==
    /\ ncodes = Len(declared)
    /\ nrecords = 1
    /\ declared = <<[ui |-> 1, name |-> "Root", code |-> C01]>>

\* C11: no step adds an edge whose child code has depth 1, and reading a
\* code of depth 1 leaves parent_child_relations unchanged; after the single
\* record Root/C01 there is no edge, pair generation builds no pair, and
\* tree_to_descriptor is {C01: Root}.  For v2 and for v1.
C11_DepthOneNeverChild ==
    [][TreeNumberStep =>
          /\ \A pr \in edge_steps' \cup v1_edge_steps' : Depth(pr[2]) >= 2
          /\ tree_number' \in Codes /\ Depth(tree_number') = 1 =>
                /\ parent_child_relations' = parent_child_relations
                /\ v1_parent_child_relations' = v1_parent_child_relations
          /\ OnlyRootRead' =>
                /\ Edges(parent_child_relations') = {}
                /\ Edges(v1_parent_child_relations') = {}
                /\ \A lists \in ListOrders(parent_child_relations') :
                      similar_pairs_of(parent_child_relations', lists) = <<>>
                /\ \A lists \in ListOrders(v1_parent_child_relations') :
                      v1_similar_pairs_of(v1_parent_child_relations', lists) = <<>>
                /\ tree_to_descriptor' = [c \in {C01} |-> "Root"]
                /\ v1_tree_to_descriptor' = [c \in {C01} |-> "Root"]]_vars

\* a code of depth 1 has just been read while a code below it was a key
\* already and the table held an edge: nothing was added
C11_Witness ==
    /\ pc = "codes"
    /\ tree_number = C01
    /\ C01_001 \in DOMAIN tree_to_descriptor
    /\ Edges(parent_child_relations) # {}
    /\ edge_steps = {}

(* --------------------------- relation kinds --------------------------- *)
RelationKinds == {"parent_child", "siblings"}
KindsOf(items) == {items[j][3] : j \in DOMAIN items}

\* C12: every triple that pair generation puts out has "parent_child" or
\* "siblings" as its third component, on the list v2 builds and on the list v1
\* returns, for every catalog.
C12_OnlyTwoKinds ==
    PairsGenerated =>
        /\ KindsOf(similar_pairs) \subseteq RelationKinds
        /\ KindsOf(V1Items) \subseteq RelationKinds
        /\ \A j \in DOMAIN V1Items : Len(V1Items[j]) = 3

\* pairs of both kinds have been generated
C12_Witness ==
    /\ PairsGenerated
    /\ KindsOf(similar_pairs) = RelationKinds
    /\ KindsOf(V1Items) = RelationKinds

(* ------------------------ one extraction call ------------------------- *)
\* prefix(code, i): the first i segments of a code
Prefix(t, i) == Join(Take(Split(t), i))
\* the edges the claim ascribes to one extraction of t over the table ttd
PrefixEdges(ttd, t) ==
    {<<ttd[Prefix(t, i)], ttd[Prefix(t, i + 1)]>> : i \in
        {i \in 1..(Depth(t) - 1) : Prefix(t, i) \in DOMAIN ttd /\ Prefix(t, i + 1) \in DOMAIN ttd}}
\* a table after the registration of t under a name, and nothing else
Registered(ttd, t, name) ==
    [c \in DOMAIN ttd \cup {t} |-> IF c = t THEN name ELSE ttd[c]]

\* C13: the extraction run for a code t that has just been registered adds to
\* parent_child_relations exactly the edges (owner of prefix(t, i), owner of
\* prefix(t, i+1)) for the i in 1..depth-1 with both prefixes keys of
\* tree_to_descriptor, adds no other edge and removes none; it leaves
\* tree_to_descriptor as the registration made it; and running it once more on
\* the resulting tables changes nothing.  For v2 and for v1.
C13_ExtractionAddsPrefixEdges ==
    [][/\ TreeNumberStep /\ tree_number' # NoneCode =>
            /\ Edges(parent_child_relations') =
                  Edges(parent_child_relations)
                     \cup PrefixEdges(tree_to_descriptor', tree_number')
            /\ tree_to_descriptor' =
                  Registered(tree_to_descriptor, tree_number', descriptor_name)
            /\ extract_hierarchy_relations(parent_child_relations', tree_to_descriptor',
                                           tree_number', descriptor_name).pcr
                  = parent_child_relations'
       /\ V1TreeNumberStep /\ tree_number' # NoneCode =>
            /\ Edges(v1_parent_child_relations') =
                  Edges(v1_parent_child_relations)
                     \cup PrefixEdges(v1_tree_to_descriptor', tree_number')
            /\ v1_tree_to_descriptor' =
                  Registered(v1_tree_to_descriptor, tree_number', descriptor_name)
            /\ v1_extract_hierarchy_relations(v1_parent_child_relations',
                                              v1_tree_to_descriptor',
                                              tree_number', descriptor_name).pcr
                  = v1_parent_child_relations']_vars

\* a code of depth 3 has just been read with both its prefixes keys: the
\* extraction added the edges of two levels in one call
C13_Witness ==
    /\ pc = "codes"
    /\ tree_number # NoneCode /\ Depth(tree_number) = 3
    /\ Cardinality(edge_steps) = 2
    /\ Cardinality(PrefixEdges(tree_to_descriptor, tree_number)) = 2
    /\ PrefixEdges(tree_to_descriptor, tree_number) \subseteq Edges(parent_child_relations)

(* ----------------------- parent registered first ---------------------- *)
\* the code just read has depth at least 2 and its parent code was a key of
\* the table before the reading
ParentWasKey(ttd) ==
    /\ tree_number' # NoneCode
    /\ Depth(tree_number') >= 2
    /\ ParentCode(tree_number') \in DOMAIN ttd

\* C14: when a code c is read in a record named C while parent(c) is already
\* a key of tree_to_descriptor, parent_child_relations holds the edge (owner
\* of parent(c), C) right after that step; and no step removes an edge, so the
\* edge is there in every later state.  For v2 and for v1.
C14_EdgeAddedAndKept ==
    [][/\ TreeNumberStep /\ ParentWasKey(tree_to_descriptor) =>
            <<tree_to_descriptor[ParentCode(tree_number')], descriptor_name>>
               \in Edges(parent_child_relations')
       /\ V1TreeNumberStep /\ ParentWasKey(v1_tree_to_descriptor) =>
            <<v1_tree_to_descriptor[ParentCode(tree_number')], descriptor_name>>
               \in Edges(v1_parent_child_relations')
       /\ Edges(parent_child_relations) \subseteq Edges(parent_child_relations')
       /\ Edges(v1_parent_child_relations) \subseteq Edges(v1_parent_child_relations')]_vars

\* the pass has returned, and the edge added when a record read a code after
\* another record had read its parent code is still in the table
C14_Witness ==
    /\ V1FullPass
    /\ \E i, j \in DOMAIN declared :
          /\ i < j
          /\ declared[j].code # NoneCode /\ Depth(declared[j].code) >= 2
          /\ declared[i].code = ParentCode(declared[j].code)
          /\ declared[i].name # declared[j].name
          /\ <<declared[i].name, declared[j].name>> \in Edges(parent_child_relations)
          /\ <<declared[i].name, declared[j].name>> \in Edges(v1_parent_child_relations)

(* --------------------------- last write wins -------------------------- *)
\* the last record of the pass that declared a code
LastDeclared(c) == declared[Max(Positions(c))]

\* C15: after a pass, every code c the pass declared maps in
\* tree_to_descriptor to the name, and in tree_to_ui to the identifier, of the
\* last record in declaration order that declared c; and on a new extractor
\* every key of tree_to_descriptor maps to the name of a record that declared
\* it.  For v2 and, for the names, for v1.
C15_LastWriteWins ==
    /\ FullPass =>
          /\ \A i \in DOMAIN declared :
                LET c == declared[i].code
                IN  /\ c \in DOMAIN tree_to_descriptor /\ c \in DOMAIN tree_to_ui
                    /\ tree_to_descriptor[c] = LastDeclared(c).name
                    /\ tree_to_ui[c] = LastDeclared(c).ui
          /\ ncodes = Len(declared) =>
                \A c \in DOMAIN tree_to_descriptor :
                   \E i \in DOMAIN declared :
                      declared[i].code = c /\ declared[i].name = tree_to_descriptor[c]
    /\ V1FullPass =>
          /\ \A i \in DOMAIN declared :
                LET c == declared[i].code
                IN  /\ c \in DOMAIN v1_tree_to_descriptor
                    /\ v1_tree_to_descriptor[c] = LastDeclared(c).name
          /\ ncodes = Len(declared) =>
                \A c \in DOMAIN v1_tree_to_descriptor :
                   \E i \in DOMAIN declared :
                      declared[i].code = c /\ declared[i].name = v1_tree_to_descriptor[c]

\* a pass has returned in which two records with different names declared the
\* same code: the table holds the second
C15_Witness ==
    /\ V1FullPass
    /\ \E i, j \in DOMAIN declared :
          /\ i < j
          /\ declared[i].code = declared[j].code
          /\ declared[i].name # declared[j].name
          /\ declared[i].ui # declared[j].ui
          /\ tree_to_descriptor[declared[j].code] = declared[j].name
          /\ v1_tree_to_descriptor[declared[j].code] = declared[j].name
          /\ tree_to_ui[declared[j].code] = declared[j].ui

(* ------------------- identifiers across several calls ----------------- *)
\* C16 as stated, for well-formed catalogs: between calls of parse_mesh_xml,
\* however many there were, every identifier that is a value of tree_to_ui is
\* a key of descriptor_details, and get_hierarchy_relations_by_id never fails
\* on a missing key.
C16_TreeToUiValuesAreKeys ==
    /\ pc = "idle" /\ nfaults = 0 =>
          \A c \in DOMAIN tree_to_ui : OHas(descriptor_details, tree_to_ui[c])
    /\ ret.raised # "KeyError"

(* ------------------------- the two versions --------------------------- *)
\* the triples of a returned value, as a set
TriplesOf(v) == {v.items[j] : j \in DOMAIN v.items}
\* the tables the two versions share are equal
SharedTablesEqual ==
    /\ v1_tree_to_descriptor = tree_to_descriptor
    /\ v1_descriptor_to_tree = descriptor_to_tree
    /\ v1_parent_child_relations = parent_child_relations

\* C17 as stated: over catalogs in which every record has an identifier and a
\* name and every code has text, the two versions keep tree_to_descriptor,
\* descriptor_to_tree and parent_child_relations equal after every record,
\* and get_label_hierarchy_for_micol returns the same set of triples in both
\* (looked at when there is an edge to return).
C17_VersionsEquivalent ==
    nfaults = 0 =>
        /\ pc \in {"records", "idle"} => SharedTablesEqual
        /\ ret.method = "get_label_hierarchy_for_micol"
              /\ Edges(v1_parent_child_relations) # {} =>
                 /\ IsList(ret.value) /\ IsList(v1_ret)
                 /\ TriplesOf(ret.value) = TriplesOf(v1_ret)

(* ---------------------- parent view and child view -------------------- *)
\* the records of the pass have different names
UniqueNames ==
    \A i, j \in DOMAIN declared :
       declared[i].name = declared[j].name => declared[i].ui = declared[j].ui
\* get_hierarchy_relations_by_id has returned a result for a record, after a
\* full pass on a new extractor over a catalog with unique names and codes
ResultAfterUniquePass ==
    /\ FullPass /\ FreshSinglePass /\ UniqueNames
    /\ ret.method = "get_hierarchy_relations_by_id"
    /\ ret.raised = ""
    /\ ret.value.kind = "dict"
\* the identifiers a result lists among the parents
ParentIds(v) == {v.parents[j].id : j \in DOMAIN v.parents}
\* the result for record P lists the name among its children, however the
\* child set is listed
ListsChild(P, name) ==
    \A children_list \in
          Orders(ChildrenOf(parent_child_relations, NameOfId(descriptor_details, P))) :
       LET rp == get_hierarchy_relations_by_id(V2, P, children_list)
       IN  /\ rp.raised = ""
           /\ rp.value.kind = "dict"
           /\ \E j \in DOMAIN rp.value.children : rp.value.children[j] = name

\* C18 as stated: after a full pass over a catalog with unique names and
\* unique codes, whenever the result for X lists P among its parents, the
\* result for P lists X's name among its children, whatever the declaration
\* order.
C18_ViewsAgree ==
    ResultAfterUniquePass =>
        \A P \in ParentIds(ret.value) : ListsChild(P, ret.value.term_name)

\* c was read after its parent code, or a code extending c was read after both
ReadInOrder(c) ==
    \/ Min(Positions(c)) > Min(Positions(ParentCode(c)))
    \/ \E x \in DOMAIN tree_to_descriptor :
          /\ Extends(x, c)
          /\ Min(Positions(x)) > Min(Positions(c))
          /\ Min(Positions(x)) > Min(Positions(ParentCode(c)))
\* the codes of a result through which it lists a parent
CodesWithParent(v) ==
    {v.tree_numbers[j] : j \in
        {j \in DOMAIN v.tree_numbers :
            /\ Depth(v.tree_numbers[j]) >= 2
            /\ ParentCode(v.tree_numbers[j]) \in DOMAIN tree_to_ui}}

\* C18 (amended): after a full pass on a new extractor over a catalog with
\* unique names and unique codes, whenever the result for X lists P among its
\* parents through a code c of X (P declared parent(c)), and c was read after
\* parent(c) or a code that has c as a proper prefix was read after both, the
\* result for P lists X's name among its children.
C18_ViewsAgreeInOrder ==
    ResultAfterUniquePass =>
        \A c \in CodesWithParent(ret.value) :
           /\ tree_to_ui[ParentCode(c)] \in ParentIds(ret.value)
           /\ ReadInOrder(c) => ListsChild(tree_to_ui[ParentCode(c)], ret.value.term_name)

\* a result lists a parent through a code read before its parent code, and
\* the parent's result lists the record all the same: a code below was read
\* after both
C18_Witness ==
    /\ ResultAfterUniquePass
    /\ \E c \in CodesWithParent(ret.value) :
          /\ Min(Positions(c)) < Min(Positions(ParentCode(c)))
          /\ ReadInOrder(c)
          /\ tree_to_ui[ParentCode(c)] # ret.id
          /\ ListsChild(tree_to_ui[ParentCode(c)], ret.value.term_name)

====
